---- MODULE Spec2Model ----
(***************************************************************************)
(* Model of the GM program (src/src/lib.rs): one entrypoint,               *)
(* process_instruction, which checks the first account's owner, decodes    *)
(* the instruction data as a Borsh GreetingAccount { name: String } and    *)
(* serializes it back into the first account's data buffer.                *)
(*                                                                         *)
(* Bytes are integers 0..255.  A Rust String is modelled by its UTF-8      *)
(* bytes (a sequence of bytes that passes Utf8Valid).                      *)
(***************************************************************************)
EXTENDS Integers, Sequences, FiniteSets, TLC

\* ------------------------------------------------------------------ bounds
\* Longest body (bytes after the length prefix) of an enumerated payload.
MaxBody == 2
\* Largest data buffer of an account.
MaxData == 7

\* Bytes the enumerated payload bodies are made of:
\* 71 'G', 77 'M', 195 169 = U+00E9 (a two-byte UTF-8 scalar); a lone 195
\* or a lone 169 is not UTF-8.
BodyBytes == {71, 77, 195, 169}

\* Public keys of the model.
Keys == {"K1", "K2"}

\* ------------------------------------------------------- byte-level helpers
Min(a, b) == IF a <= b THEN a ELSE b

\* u32::to_le_bytes
ToLE32(k) ==
    << k % 256, (k \div 256) % 256, (k \div 65536) % 256, (k \div 16777216) % 256 >>

\* u32::from_le_bytes on the first four bytes of b
FromLE32(b) == b[1] + 256 * b[2] + 65536 * b[3] + 16777216 * b[4]

\* the tail of s from (1-based) position i on
Drop(s, i) == SubSeq(s, i, Len(s))

Cont(b) == b >= 128 /\ b <= 191

\* String::from_utf8: well-formed UTF-8 (Unicode table 3-7), as
\* core::str::from_utf8 validates it.
RECURSIVE Utf8Valid(_)
Utf8Valid(s) ==
    IF s = << >> THEN TRUE
    ELSE LET b == s[1]
             n == Len(s)
         IN  IF b < 128 THEN Utf8Valid(Drop(s, 2))
             ELSE IF b >= 194 /\ b <= 223
                  THEN n >= 2 /\ Cont(s[2]) /\ Utf8Valid(Drop(s, 3))
             ELSE IF b >= 224 /\ b <= 239
                  THEN /\ n >= 3
                       /\ IF b = 224 THEN s[2] >= 160 /\ s[2] <= 191
                          ELSE IF b = 237 THEN s[2] >= 128 /\ s[2] <= 159
                          ELSE Cont(s[2])
                       /\ Cont(s[3])
                       /\ Utf8Valid(Drop(s, 4))
             ELSE IF b >= 240 /\ b <= 244
                  THEN /\ n >= 4
                       /\ IF b = 240 THEN s[2] >= 144 /\ s[2] <= 191
                          ELSE IF b = 244 THEN s[2] >= 128 /\ s[2] <= 143
                          ELSE Cont(s[2])
                       /\ Cont(s[3])
                       /\ Cont(s[4])
                       /\ Utf8Valid(Drop(s, 5))
             ELSE FALSE

\* ------------------------------------------------ Borsh decoding (line 41)
\* <u32 as BorshDeserialize>::deserialize: fails on fewer than 4 bytes,
\* otherwise reads a little-endian u32 and advances the slice.
deserialize_u32(buf) ==
    IF Len(buf) < 4
    THEN [ok |-> FALSE, value |-> 0, rest |-> buf]
    ELSE [ok |-> TRUE, value |-> FromLE32(buf), rest |-> Drop(buf, 5)]

\* <Vec<u8> as BorshDeserialize>::deserialize: a u32 length, then that many
\* bytes; fails when fewer bytes remain.
deserialize_bytes(buf) ==
    LET l == deserialize_u32(buf)
    IN  IF ~l.ok THEN [ok |-> FALSE, value |-> << >>, rest |-> buf]
        ELSE IF Len(l.rest) < l.value
             THEN [ok |-> FALSE, value |-> << >>, rest |-> l.rest]
        ELSE [ok |-> TRUE,
              value |-> SubSeq(l.rest, 1, l.value),
              rest |-> Drop(l.rest, l.value + 1)]

\* <String as BorshDeserialize>::deserialize: the bytes must be UTF-8.
deserialize_String(buf) ==
    LET v == deserialize_bytes(buf)
    IN  IF v.ok /\ ~Utf8Valid(v.value)
        THEN [ok |-> FALSE, value |-> << >>, rest |-> v.rest]
        ELSE v

\* derived GreetingAccount::deserialize: the single field `name`.
deserialize(buf) ==
    LET s == deserialize_String(buf)
    IN  [ok |-> s.ok, name |-> s.value, rest |-> s.rest]

\* Variant of try_from_slice that tolerates unread trailing bytes.
try_from_slice_lenient(v) == deserialize(v)

\* GreetingAccount::try_from_slice: deserialize, then fail unless every byte
\* of the slice was consumed.
try_from_slice(v) ==
    LET r == deserialize(v)
    IN  IF r.ok /\ r.rest # << >>
        THEN [ok |-> FALSE, name |-> << >>, rest |-> r.rest]
        ELSE r

\* ---------------------------------------------- Borsh encoding (line 47)
\* Variant of write_all that reports success on a short write (write()
\* used for write_all()).
write_all_unchecked(w, bytes) ==
    LET amt == Min(Len(bytes), Len(w.buf) - w.pos)
    IN  [ok  |-> TRUE,
         buf |-> [i \in 1..Len(w.buf) |->
                    IF i > w.pos /\ i <= w.pos + amt
                    THEN bytes[i - w.pos] ELSE w.buf[i]],
         pos |-> w.pos + amt]

\* Variant of write_all that does not advance: every write starts at the
\* beginning of the buffer (a fresh &mut data[..] for each write).
write_all_from_start(w, bytes) ==
    LET amt == Min(Len(bytes), Len(w.buf))
    IN  [ok  |-> amt = Len(bytes),
         buf |-> [i \in 1..Len(w.buf) |->
                    IF i <= amt THEN bytes[i] ELSE w.buf[i]],
         pos |-> 0]

\* Variant of write_all that copies nothing unless all the bytes fit.
write_all_atomic(w, bytes) ==
    LET fits == Len(bytes) <= Len(w.buf) - w.pos
        amt  == IF fits THEN Len(bytes) ELSE 0
    IN  [ok  |-> fits,
         buf |-> [i \in 1..Len(w.buf) |->
                    IF i > w.pos /\ i <= w.pos + amt
                    THEN bytes[i - w.pos] ELSE w.buf[i]],
         pos |-> w.pos + amt]

\* <&mut [u8] as io::Write>::write_all on the cursor w = [buf, pos]
\* (pos bytes of buf are already behind the slice): copies as many bytes as
\* fit, advances, and fails when not all of them fitted.
write_all(w, bytes) ==
    LET amt == Min(Len(bytes), Len(w.buf) - w.pos)
    IN  [ok  |-> amt = Len(bytes),
         buf |-> [i \in 1..Len(w.buf) |->
                    IF i > w.pos /\ i <= w.pos + amt
                    THEN bytes[i - w.pos] ELSE w.buf[i]],
         pos |-> w.pos + amt]

\* Variant of serialize with the length prefix in big-endian byte order.
serialize_be(name, w) ==
    LET l == ToLE32(Len(name))
        a == write_all(w, << l[4], l[3], l[2], l[1] >>)
    IN  IF ~a.ok THEN a ELSE write_all(a, name)

\* Variant of serialize that writes the bytes without the length prefix.
serialize_raw(name, w) == write_all(w, name)

\* derived GreetingAccount::serialize = String::serialize: the u32 length,
\* then the bytes, each by write_all; the first failure is returned.
serialize(name, w) ==
    LET a == write_all(w, ToLE32(Len(name)))
    IN  IF ~a.ok THEN a ELSE write_all(a, name)

\* ------------------------------------------------------------------ state
VARIABLES
    accounts,    \* the account list the host passes: <<[owner, data], ...>>
    pc,          \* "idle": no call in progress; "returned": a call just ended
    program_id,  \* program_id argument of the call that just ended
    input,       \* instruction data of the call that just ended
    result,      \* outcome of the call that just ended ("none" when idle)
    before,      \* the account list as it was when that call began
    trace,       \* the account/input accesses that call performed, in order
    written,     \* history: name of the latest call that reached the write
    greeted      \* history: name of the latest call that returned Ok

vars == << accounts, pc, program_id, input, result, before, trace,
           written, greeted >>

\* An account as the program sees it: AccountInfo.owner and AccountInfo.data.
\* The loader allocates account data zero-filled.
Zeros(n) == [i \in 1..n |-> 0]

AccountInfo(owner, len) == [owner |-> owner, data |-> Zeros(len)]

\* The account lists of the model: none, one account, or two (the second is
\* none of the program's business).
AccountLists ==
    { << >> }
    \cup { << AccountInfo(o, n) >> : o \in Keys, n \in 0..MaxData }
    \cup { << AccountInfo(o, n), AccountInfo("K1", 1) >> :
             o \in Keys, n \in 0..MaxData }

\* The instruction data the host may pass: every prefix of a u32 length
\* followed by a body, the length agreeing with the body or not.
Bodies == UNION { [1..n -> BodyBytes] : n \in 0..MaxBody }

LenVals == (0..(MaxBody + 1)) \cup {256}

Payloads == { ToLE32(k) \o b : k \in LenVals, b \in Bodies }

Inputs == UNION { { SubSeq(p, 1, m) : m \in 0..Len(p) } : p \in Payloads }

\* An optional name (Option<String>) of the history variables.
None == [some |-> FALSE, name |-> << >>]

Some(n) == [some |-> TRUE, name |-> n]

\* ------------------------------------------- the handler (lines 21 to 50)
\* The latest call's outcome.  "panic" is the abort of unwrap() on a decode
\* error; the others are Ok(()) and the ProgramError variants returned.
Outcomes ==
    {"Ok", "NotEnoughAccountKeys", "IncorrectProgramId", "BorshIoError", "panic"}

\* Variant of store that clears the buffer behind the record.
store_clear_tail(pid, accts, inp, name) ==
    LET w == serialize(name, [buf |-> accts[1].data, pos |-> 0])
    IN  [result   |-> IF w.ok THEN "Ok" ELSE "BorshIoError",
         accounts |-> [accts EXCEPT ![1].data =
                         [i \in 1..Len(w.buf) |->
                            IF i > w.pos THEN 0 ELSE w.buf[i]]],
         trace    |-> << "next_account_info", "owner", "try_from_slice",
                         "try_borrow_mut_data", "serialize" >>]

\* Lines 46-47: borrow the account's data mutably and serialize the record
\* into it from position 0; an io::Error of the writer is returned as
\* ProgramError::BorshIoError.  The buffer keeps what was written before the
\* failure.  try_borrow_mut_data itself does not fail: the entrypoint hands
\* the handler freshly built RefCells, and nothing borrows them before.
store(pid, accts, inp, name) ==
    LET w == serialize(name, [buf |-> accts[1].data, pos |-> 0])
    IN  [result   |-> IF w.ok THEN "Ok" ELSE "BorshIoError",
         accounts |-> [accts EXCEPT ![1].data = w.buf],
         trace    |-> << "next_account_info", "owner", "try_from_slice",
                         "try_borrow_mut_data", "serialize" >>]

\* Lines 40-41: decode the instruction data; unwrap() aborts on an error.
decode_and_store(pid, accts, inp) ==
    LET d == try_from_slice(inp)
    IN  IF ~d.ok
        THEN [result   |-> "panic",
              accounts |-> accts,
              trace    |-> << "next_account_info", "owner", "try_from_slice" >>]
        ELSE store(pid, accts, inp, d.name)

\* Variant of check_owner that lacks the ownership check.
check_owner_skipped(pid, accts, inp) == decode_and_store(pid, accts, inp)

\* Variant of check_owner that decodes the input before it compares owners.
check_owner_decode_first(pid, accts, inp) ==
    IF ~try_from_slice(inp).ok
    THEN [result   |-> "panic",
          accounts |-> accts,
          trace    |-> << "next_account_info", "try_from_slice" >>]
    ELSE IF accts[1].owner # pid
    THEN [result   |-> "IncorrectProgramId",
          accounts |-> accts,
          trace    |-> << "next_account_info", "try_from_slice", "owner" >>]
    ELSE store(pid, accts, inp, try_from_slice(inp).name)

\* Lines 34-38: the account must be owned by the program.
check_owner(pid, accts, inp) ==
    IF accts[1].owner # pid
    THEN [result   |-> "IncorrectProgramId",
          accounts |-> accts,
          trace    |-> << "next_account_info", "owner" >>]
    ELSE decode_and_store(pid, accts, inp)

\* Variant of process_instruction that indexes accounts[0] instead of
\* iterating: an empty list aborts.
process_instruction_indexed(pid, accts, inp) ==
    IF accts = << >>
    THEN [result   |-> "panic",
          accounts |-> accts,
          trace    |-> << "next_account_info" >>]
    ELSE check_owner(pid, accts, inp)

\* Lines 28-32: next_account_info fails on an exhausted iterator.
process_instruction(pid, accts, inp) ==
    IF accts = << >>
    THEN [result   |-> "NotEnoughAccountKeys",
          accounts |-> accts,
          trace    |-> << "next_account_info" >>]
    ELSE check_owner(pid, accts, inp)

\* ------------------------------------------------------- the state machine
Init ==
    /\ accounts \in AccountLists
    /\ pc = "idle"
    /\ program_id = "K1"
    /\ input = << >>
    /\ result = "none"
    /\ before = accounts
    /\ trace = << >>
    /\ written = None
    /\ greeted = None

\* The host invokes the entrypoint (line 18) with a program id and
\* instruction data on the account list; the handler runs to its end.
Invoke ==
    /\ pc = "idle"
    /\ \E pid \in Keys, inp \in Inputs :
        LET r == process_instruction(pid, accounts, inp)
            name == try_from_slice(inp).name
        IN  /\ program_id' = pid
            /\ input' = inp
            /\ before' = accounts
            /\ accounts' = r.accounts
            /\ result' = r.result
            /\ trace' = r.trace
            /\ written' = IF r.trace # << >> /\ r.trace[Len(r.trace)] = "serialize"
                          THEN Some(name) ELSE written
            /\ greeted' = IF r.result = "Ok" THEN Some(name) ELSE greeted
    /\ pc' = "returned"

\* The host takes the call's outcome; nothing of the call outlives it but
\* the accounts' data (the handler keeps no state between calls).
Return ==
    /\ pc = "returned"
    /\ pc' = "idle"
    /\ program_id' = "K1"
    /\ input' = << >>
    /\ result' = "none"
    /\ before' = accounts
    /\ trace' = << >>
    /\ UNCHANGED << accounts, written, greeted >>

Next == Invoke \/ Return

Spec == Init /\ [][Next]_vars

TypeOK ==
    /\ pc \in {"idle", "returned"}
    /\ result \in Outcomes \cup {"none"}
    /\ (pc = "returned") = (result \in Outcomes)
    /\ program_id \in Keys
    /\ Len(accounts) = Len(before)

\* ------------------------------------------------------------- vocabulary
\* The wire format of the greeting record: a u32 little-endian length
\* followed by the name's UTF-8 bytes.
CanonicalEncoding(n) == ToLE32(Len(n)) \o n

\* inp is the canonical encoding of a name (of the bytes behind its first 4).
IsCanonical(inp) ==
    /\ Len(inp) >= 4
    /\ Utf8Valid(Drop(inp, 5))
    /\ inp = CanonicalEncoding(Drop(inp, 5))

NameOf(inp) == Drop(inp, 5)

GM == << 71, 77 >>

Called == pc = "returned"

HasAccount == before # << >>

OwnerOk == HasAccount /\ before[1].owner = program_id

OwnerMismatch == HasAccount /\ before[1].owner # program_id

\* v decodes, with the program's decoder, to the record named n
DecodesTo(v, n) == try_from_slice(v).ok /\ try_from_slice(v).name = n

\* ------------------------------------------------------------------- C1
\* C1 as claimed: a call on a program-owned first account with a validly
\* encoded name succeeds, and the account's storage then decodes to a
\* record with exactly that name.
C1_Claimed ==
    (Called /\ OwnerOk /\ IsCanonical(input))
        => /\ result = "Ok"
           /\ DecodesTo(accounts[1].data, NameOf(input))

\* C1 as amended: when moreover the storage is at least as long as the
\* encoding (N bytes), the call succeeds and the first N bytes of the
\* storage decode to a record with exactly that name; the whole storage
\* decodes to it exactly when the storage is N bytes long.
C1_RoundTrip ==
    (Called /\ OwnerOk /\ IsCanonical(input)
        /\ Len(before[1].data) >= Len(input))
        => /\ result = "Ok"
           /\ DecodesTo(SubSeq(accounts[1].data, 1, Len(input)), NameOf(input))
           /\ DecodesTo(accounts[1].data, NameOf(input))
                <=> (Len(accounts[1].data) = Len(input))

C1_Witness ==
    /\ Called /\ OwnerOk
    /\ input = CanonicalEncoding(GM)
    /\ Len(before[1].data) > Len(input)
    /\ result = "Ok"

\* ------------------------------------------------------------------- C2
\* C2: a call whose first account is owned by another key than program_id
\* returns IncorrectProgramId, whatever the input, and leaves the accounts
\* as they were.
C2_OwnerMismatch ==
    (Called /\ OwnerMismatch)
        => /\ result = "IncorrectProgramId"
           /\ accounts = before

C2_Witness ==
    /\ Called /\ OwnerMismatch
    /\ input = CanonicalEncoding(GM)
    /\ Len(before[1].data) >= Len(input)
    /\ before[1].data # Zeros(Len(before[1].data))
    /\ result = "IncorrectProgramId"

\* ------------------------------------------------------------------- C3
\* C3 as claimed: a call that does not return success leaves every byte of
\* the first account's storage as it was.
C3_Claimed ==
    (Called /\ result # "Ok") => accounts = before

\* C3 as amended: a call that fails for a missing account, an ownership
\* mismatch or a decode abort leaves the accounts as they were; a call that
\* fails in the storage write (a storage of L bytes, shorter than the
\* encoding) leaves the storage's length and the other accounts as they
\* were and has overwritten the storage with the first L bytes of the
\* encoding.
C3_FailureFrame ==
    (Called /\ result # "Ok")
        => IF result = "BorshIoError"
           THEN /\ OwnerOk /\ IsCanonical(input)
                /\ Len(before[1].data) < Len(input)
                /\ accounts[1].data = SubSeq(input, 1, Len(before[1].data))
                /\ accounts = [before EXCEPT ![1].data = accounts[1].data]
           ELSE accounts = before

C3_Witness ==
    /\ Called
    /\ result = "BorshIoError"
    /\ Len(before[1].data) = 5
    /\ accounts[1].data # before[1].data

\* ------------------------------------------------------------------- C4
\* C4 as claimed: once a call has succeeded, the first account's storage
\* decodes, with the decoder the program applies to its input, to the name
\* of the most recent successful call.
C4_Claimed ==
    greeted.some => DecodesTo(accounts[1].data, greeted.name)

\* C4 as amended: once a call has reached the storage write, the storage (L
\* bytes) begins with the first min(L, N) bytes of the N-byte encoding of
\* the name of the most recent such call; when that call succeeded (L >= N)
\* its name is that of the most recent successful call and the first N
\* bytes of the storage decode to it, the whole storage exactly when L = N.
C4_StoredLayout ==
    written.some
        => LET E == CanonicalEncoding(written.name)
               d == accounts[1].data
               m == Min(Len(d), Len(E))
           IN  /\ SubSeq(d, 1, m) = SubSeq(E, 1, m)
               /\ Len(d) >= Len(E)
                    => /\ greeted = written
                       /\ DecodesTo(SubSeq(d, 1, Len(E)), written.name)
                       /\ DecodesTo(d, written.name) <=> (Len(d) = Len(E))
               /\ Len(d) < Len(E) => ~DecodesTo(d, written.name)

C4_Witness ==
    /\ pc = "idle"
    /\ greeted = Some(GM)
    /\ written = Some(GM)
    /\ Len(accounts[1].data) = Len(CanonicalEncoding(GM))
    /\ DecodesTo(accounts[1].data, GM)

\* ------------------------------------------------------------------- C5
\* C5: a call on a program-owned first account whose input is not a valid
\* encoding of the record aborts (no error is returned) and leaves the
\* accounts as they were.
C5_MalformedAborts ==
    (Called /\ OwnerOk /\ ~IsCanonical(input))
        => /\ result = "panic"
           /\ accounts = before

\* a length prefix announcing more bytes than follow, on a storage that
\* holds an earlier record
C5_Witness ==
    /\ Called /\ OwnerOk
    /\ input = ToLE32(2) \o << 71 >>
    /\ before[1].data = CanonicalEncoding(GM)
    /\ result = "panic"

\* ------------------------------------------------------------------- C6
\* C6: a call with an empty account list returns NotEnoughAccountKeys for
\* every program_id and input, having done nothing but ask for the first
\* account.
C6_NoAccounts ==
    (Called /\ before = << >>)
        => /\ result = "NotEnoughAccountKeys"
           /\ trace = << "next_account_info" >>
           /\ accounts = before

C6_Witness ==
    /\ Called
    /\ before = << >>
    /\ program_id = "K2"
    /\ input = CanonicalEncoding(GM)
    /\ result = "NotEnoughAccountKeys"

\* ------------------------------------------------------------------- C7
\* C7: after a successful call with a name whose canonical encoding is N
\* bytes long, the first N bytes of the first account's storage are that
\* canonical encoding, whatever the storage held before.
C7_CanonicalPrefix ==
    (Called /\ result = "Ok")
        => LET E == CanonicalEncoding(greeted.name)
           IN  /\ input = E
               /\ Len(E) = 4 + Len(greeted.name)
               /\ Len(accounts[1].data) >= Len(E)
               /\ SubSeq(accounts[1].data, 1, Len(E)) = E

\* name "GM" into a storage of exactly N = 6 bytes that held another record
C7_Witness ==
    /\ Called /\ result = "Ok"
    /\ greeted.name = GM
    /\ Len(before[1].data) = 6
    /\ before[1].data # Zeros(6)
    /\ before[1].data # accounts[1].data
    /\ accounts[1].data = << 2, 0, 0, 0, 71, 77 >>

\* ------------------------------------------------------------------- C8
\* C8: a call on a program-owned first account with a validly encoded
\* record and a storage shorter than the record's encoding returns the
\* write failure (BorshIoError): it neither succeeds nor aborts.
C8_ShortStorage ==
    (Called /\ OwnerOk /\ IsCanonical(input)
        /\ Len(before[1].data) < Len(input))
        => result = "BorshIoError"

C8_Witness ==
    /\ Called /\ OwnerOk
    /\ input = CanonicalEncoding(GM)
    /\ Len(before[1].data) = 5
    /\ result = "BorshIoError"

\* ------------------------------------------------------------------- C9
\* C9: the checks run in the order account presence, ownership, decode,
\* storage write, and the first that fails decides the outcome; the input
\* is not decoded and the storage not borrowed unless the earlier checks
\* passed.
Steps ==
    << "next_account_info", "owner", "try_from_slice",
       "try_borrow_mut_data", "serialize" >>

InTrace(step) == \E i \in 1..Len(trace) : trace[i] = step

C9_CheckOrder ==
    Called
        => /\ \E k \in 1..Len(Steps) : trace = SubSeq(Steps, 1, k)
           /\ result =
                IF ~HasAccount THEN "NotEnoughAccountKeys"
                ELSE IF OwnerMismatch THEN "IncorrectProgramId"
                ELSE IF ~IsCanonical(input) THEN "panic"
                ELSE IF Len(before[1].data) < Len(input) THEN "BorshIoError"
                ELSE "Ok"
           /\ InTrace("try_from_slice") => OwnerOk
           /\ InTrace("try_borrow_mut_data") => OwnerOk /\ IsCanonical(input)
           /\ result = "NotEnoughAccountKeys" => Len(trace) = 1
           /\ result = "IncorrectProgramId" => Len(trace) = 2
           /\ result = "panic" => Len(trace) = 3

\* an owner mismatch with a malformed input
C9_Witness ==
    /\ Called /\ OwnerMismatch
    /\ input = << 2, 0 >>
    /\ result = "IncorrectProgramId"
    /\ trace = << "next_account_info", "owner" >>

\* ------------------------------------------------------------------ C10
\* C10: a successful call whose record encodes to N bytes changes only the
\* first N bytes of the first account's storage: the bytes behind them, the
\* storage's length, the account's owner and the other accounts stay.
C10_SuccessFrame ==
    (Called /\ result = "Ok")
        => LET N == Len(CanonicalEncoding(greeted.name))
           IN  /\ Len(accounts) = Len(before)
               /\ Len(accounts[1].data) = Len(before[1].data)
               /\ accounts[1].owner = before[1].owner
               /\ \A i \in 1..Len(accounts[1].data) :
                    i > N => accounts[1].data[i] = before[1].data[i]
               /\ \A k \in 2..Len(accounts) : accounts[k] = before[k]

\* a second account, and a non-zero byte behind the record
C10_Witness ==
    /\ Called /\ result = "Ok"
    /\ Len(accounts) = 2
    /\ Len(accounts[1].data) > Len(input)
    /\ before[1].data[Len(input) + 1] # 0
    /\ accounts[1].data # before[1].data

====
